---- MODULE Spec2Model ----
(***************************************************************************)
(* Model of trellis_3d_generator_simple.py: the TrellisGenerator batch     *)
(* job.  The catalog store (tables zuo_3d_embedding, zuo_catalog,          *)
(* zuo_images), the object store (bucket 'zuo-generated'), temporary       *)
(* storage and the locals of run / process_item are the state.  Every      *)
(* remote call may raise; whether it does is an input of the action.       *)
(***************************************************************************)
EXTENDS Integers, Sequences, FiniteSets, TLC

\* ---- bounds of the model
NItems == 2
MaxLimit == 2

\* ---- program constants
MAX_RETRIES == 3
SUPABASE_BUCKET == "zuo-generated"

\* counters of run are kept up to MaxCount; MaxCount stands for "MaxCount or more"
MaxCount == MaxLimit + 1

Items == 1..NItems

VARIABLES
    zuo_catalog,       \* [Items -> result.data of the zuo_catalog query]
    zuo_images,        \* [Items -> result.data of the zuo_images query]
    zuo_3d_embedding,  \* [Items -> [has_asset, asset_url, asset_url_full]]
    bucket_exists,     \* the bucket SUPABASE_BUCKET exists
    objects,           \* [Filenames -> "none", or whose bytes the object holds]
    tmp_img,           \* the image temp file made by the attempt at hand exists
    tmp_glb,           \* the glb file made by the attempt at hand exists
    pc,                \* position of run
    limit,             \* <<>> is None, <<n>> an int
    test_mode,
    item,              \* <<>> is None, <<combined_item>> otherwise
    retry_count, item_success,
    success_count, failed_count, processed_count,
    glb_filepath,      \* process_item's local: "None" or "path"
    result,            \* what process_item returns
    sel,               \* outcome of the latest get_next_pending_item frame
    attempts,          \* process_item calls for the current selection
    downloaded,        \* url of the latest requests.get
    last_upload,       \* outcome of the latest upload_to_supabase call
    updated_rows,      \* the store's answer to the update of update_database
    exhausted,         \* items the driver gave up on (retry_count reached MAX_RETRIES)
    faults,            \* store errors seen by the current run: "select", "mark"
    start_pending      \* eligible pending records when the current run started

vars == << zuo_catalog, zuo_images, zuo_3d_embedding, bucket_exists, objects,
           tmp_img, tmp_glb, pc, limit, test_mode, item, retry_count,
           item_success, success_count, failed_count, processed_count,
           glb_filepath, result, sel, attempts, downloaded,
           last_upload, updated_rows, exhausted, faults, start_pending >>

db_vars == << zuo_catalog, zuo_images >>
store_vars == << bucket_exists, objects >>
tmp_vars == << tmp_img, tmp_glb >>
count_vars == << success_count, failed_count, processed_count >>

\* ---- values
Null == <<>>
ImageUrl(i) == << "http://x/img", i >>
Filename(i) == << i, ".glb" >>
Filenames == { Filename(i) : i \in Items }
get_public_url(filename) == << "public", SUPABASE_BUCKET, filename >>

CatalogRow(c, s) == [Main_Category |-> c, Item_Status |-> s]
ImageRow(u) == [Single_Image_1_URL |-> u]

CatalogKinds == { <<>>,
                  << CatalogRow("Outdoor", "ACTIVE") >>,
                  << CatalogRow("Indoor", "DISC") >>,
                  << CatalogRow("Indoor", "ACTIVE") >> }
\* (catalog data, image row) of the records the selector tells apart
RecordKinds == <<
    << <<>>, "url" >>,
    << << CatalogRow("Outdoor", "ACTIVE") >>, "url" >>,
    << << CatalogRow("Indoor", "DISC") >>, "url" >>,
    << << CatalogRow("Indoor", "ACTIVE") >>, "norow" >>,
    << << CatalogRow("Indoor", "ACTIVE") >>, "empty" >>,
    << << CatalogRow("Indoor", "ACTIVE") >>, "url" >> >>
ImageKinds(i) == { <<>>, << ImageRow(Null) >>, << ImageRow(ImageUrl(i)) >> }

NoUpload == [called |-> FALSE, had_object |-> FALSE, fault |-> FALSE,
             returned |-> Null, first |-> "-",
             create_called |-> FALSE, create_args |-> << >>,
             uploads |-> 0, kbd_swallowed |-> FALSE]
NoCall == [kind |-> "call", rec |-> 0, ret |-> Null]

Inc(n) == IF n < MaxCount THEN n + 1 ELSE n

Cur == item[1].zuo_item_no

TypeOK ==
    /\ zuo_catalog \in [Items -> CatalogKinds]
    /\ \A i \in Items : zuo_images[i] \in ImageKinds(i)
    /\ \A i \in Items : /\ zuo_3d_embedding[i].has_asset \in BOOLEAN
                        /\ zuo_3d_embedding[i].asset_url \in {Null, get_public_url(Filename(i))}
    /\ bucket_exists \in BOOLEAN
    /\ objects \in [Filenames -> {"none", "old", "new"}]
    /\ glb_filepath \in {"None", "path"}
    /\ pc \in {"idle", "loop", "select", "selected", "retry_loop", "download", "predict",
               "upload", "record", "finally", "returned", "pause", "done",
               "interrupted", "escaped"}
    /\ retry_count \in 0..MAX_RETRIES
    /\ processed_count \in 0..MaxCount

\* ---- construction: the tables hold NItems tracking records, none with an
\* asset; nothing is in temporary storage; the bucket may or may not exist.
Init ==
    \* the first query returns any pending record, so the order of the
    \* records means nothing: one order per multiset of kinds is enough
    /\ \E k \in [Items -> 1..Len(RecordKinds)] :
         /\ \A i, j \in Items : i <= j => k[i] <= k[j]
         /\ zuo_catalog = [i \in Items |-> RecordKinds[k[i]][1]]
         /\ zuo_images = [i \in Items |->
                            IF RecordKinds[k[i]][2] = "norow" THEN <<>>
                            ELSE IF RecordKinds[k[i]][2] = "empty" THEN << ImageRow(Null) >>
                            ELSE << ImageRow(ImageUrl(i)) >>]
    /\ zuo_3d_embedding = [i \in Items |->
                             [has_asset |-> FALSE, asset_url |-> Null, asset_url_full |-> Null]]
    /\ bucket_exists \in BOOLEAN
    /\ objects = [f \in Filenames |-> "none"]
    /\ tmp_img = FALSE /\ tmp_glb = FALSE
    /\ pc = "idle"
    /\ limit = Null /\ test_mode = FALSE
    /\ item = Null
    /\ retry_count = 0 /\ item_success = FALSE
    /\ success_count = 0 /\ failed_count = 0 /\ processed_count = 0
    /\ glb_filepath = "None" /\ result = FALSE
    /\ sel = NoCall
    /\ attempts = 0
    /\ downloaded = Null
    /\ last_upload = NoUpload
    /\ updated_rows = "-"
    /\ exhausted = {}
    /\ faults = {}
    /\ start_pending = {}

\* ---- get_next_pending_item

\* .eq('has_asset', False): the records the first query can return
PendingRecords_Mutant == Items

PendingRecords == { i \in Items : zuo_3d_embedding[i].has_asset = FALSE }

\* the exclusion rules, in the order of the code
NoCatalogData(r) == zuo_catalog[r] = <<>>
IsOutdoor(r) == zuo_catalog[r][1].Main_Category = "Outdoor"
IsDiscontinued(r) == zuo_catalog[r][1].Item_Status = "DISC"
NoValidImage(r) == zuo_images[r] = <<>> \/ zuo_images[r][1].Single_Image_1_URL = Null

SelErrors == {"none", "fetch", "catalog", "image", "update"}

ScanOutcome_Mutant(r, err) ==
    IF err = "catalog" THEN "error"
    ELSE IF NoCatalogData(r) THEN (IF err = "update" THEN "error" ELSE "skip")
    ELSE IF IsOutdoor(r) THEN (IF err = "update" THEN "error" ELSE "skip")
    ELSE IF err = "image" THEN "error"
    ELSE IF NoValidImage(r) THEN (IF err = "update" THEN "error" ELSE "skip")
    ELSE "item"

\* What one frame of get_next_pending_item does with the fetched record r when
\* the store call named by err raises: "error" (except branch, return None),
\* "skip" (mark has_asset and recurse) or "item" (return the combined item).
ScanOutcome(r, err) ==
    IF err = "catalog" THEN "error"
    ELSE IF NoCatalogData(r) THEN (IF err = "update" THEN "error" ELSE "skip")
    ELSE IF IsOutdoor(r) THEN (IF err = "update" THEN "error" ELSE "skip")
    ELSE IF IsDiscontinued(r) THEN (IF err = "update" THEN "error" ELSE "skip")
    ELSE IF err = "image" THEN "error"
    ELSE IF NoValidImage(r) THEN (IF err = "update" THEN "error" ELSE "skip")
    ELSE "item"

combined_item(r) ==
    [zuo_item_no |-> r,
     main_category |-> zuo_catalog[r][1].Main_Category,
     item_status |-> zuo_catalog[r][1].Item_Status,
     single_image_1_url |-> zuo_images[r][1].Single_Image_1_URL,
     has_asset |-> zuo_3d_embedding[r].has_asset]

\* the update({'has_asset': True}).eq('Zuo_Item_No', r) of the selector and of run
MarkProcessed_WritesUrl(tbl, r) ==
    [tbl EXCEPT ![r].has_asset = TRUE, ![r].asset_url = get_public_url(Filename(r))]

MarkProcessed(tbl, r) == [tbl EXCEPT ![r].has_asset = TRUE]

\* where a frame goes on: "return self.get_next_pending_item()" after a skip,
\* else it returns to run
AfterScan_Mutant(o) == "selected"

AfterScan(o) == IF o = "skip" THEN "select" ELSE "selected"

\* one frame of the recursion: fetch a pending record, look it up, then return
\* it, return None, or mark it and call get_next_pending_item again
get_next_pending_item(err) ==
    /\ pc = "select"
    /\ IF err = "fetch"
         THEN /\ sel' = [kind |-> "error", rec |-> 0, ret |-> Null]
              /\ faults' = faults \cup {"select"}
              /\ pc' = "selected"
              /\ UNCHANGED zuo_3d_embedding
       ELSE IF PendingRecords = {}
         THEN /\ sel' = [kind |-> "none", rec |-> 0, ret |-> Null]
              /\ pc' = "selected"
              /\ UNCHANGED << zuo_3d_embedding, faults >>
       ELSE \E r \in PendingRecords :
              LET o == ScanOutcome(r, err) IN
              /\ sel' = [kind |-> o, rec |-> r,
                         ret |-> IF o = "item" THEN << combined_item(r) >> ELSE Null]
              /\ zuo_3d_embedding' = IF o = "skip" THEN MarkProcessed(zuo_3d_embedding, r)
                                     ELSE zuo_3d_embedding
              /\ faults' = IF o = "error" THEN faults \cup {"select"} ELSE faults
              /\ pc' = AfterScan(o)
    /\ UNCHANGED << db_vars, store_vars, tmp_vars, limit, test_mode, item, retry_count,
                    item_success, count_vars, glb_filepath, result, attempts,
                    downloaded, last_upload, updated_rows, exhausted, start_pending >>

\* ---- run

Eligible(r) == /\ zuo_catalog[r] # <<>>
               /\ ~IsOutdoor(r) /\ ~IsDiscontinued(r)
               /\ ~NoValidImage(r)

\* run(limit, test_mode) is called: lines 352-361
StartRun(l, t) ==
    /\ pc \in {"idle", "done", "interrupted", "escaped"}
    /\ test_mode' = t
    /\ limit' = IF t THEN << 1 >> ELSE l
    /\ success_count' = 0 /\ failed_count' = 0 /\ processed_count' = 0
    /\ item' = Null /\ retry_count' = 0 /\ item_success' = FALSE
    /\ glb_filepath' = "None" /\ result' = FALSE
    /\ attempts' = 0
    /\ sel' = NoCall
    /\ last_upload' = NoUpload
    /\ updated_rows' = "-"
    /\ faults' = {}
    /\ start_pending' = { i \in PendingRecords : Eligible(i) }
    /\ pc' = "loop"
    /\ UNCHANGED << db_vars, zuo_3d_embedding, store_vars, tmp_vars, downloaded, exhausted >>

\* "if limit and processed_count >= limit"
LimitReached_Mutant(lim, n) == lim # Null /\ lim[1] # 0 /\ n > lim[1]

LimitReached(lim, n) == lim # Null /\ lim[1] # 0 /\ n >= lim[1]

\* head of "while True": break on the limit, else call the selector
RunLoopHead ==
    /\ pc = "loop"
    /\ IF LimitReached(limit, processed_count)
         THEN pc' = "done" /\ UNCHANGED sel
         ELSE pc' = "select" /\ sel' = NoCall
    /\ UNCHANGED << db_vars, zuo_3d_embedding, store_vars, tmp_vars, limit, test_mode, item,
                    retry_count, item_success, count_vars, glb_filepath, result,
                    attempts, downloaded, last_upload, updated_rows, exhausted,
                    faults, start_pending >>

\* lines 371-375: processed_count after "if not item: break"
ProcessedAfterTake_Mutant(ret, n) == Inc(n)

ProcessedAfterTake(ret, n) == IF ret = Null THEN n ELSE Inc(n)

\* lines 370-383: "if not item: break", else count the item and reset the retry state
RunTakeItem ==
    /\ pc = "selected"
    /\ item' = sel.ret
    /\ processed_count' = ProcessedAfterTake(sel.ret, processed_count)
    /\ IF sel.ret = Null
         THEN /\ pc' = "done"
              /\ UNCHANGED << retry_count, item_success, attempts >>
         ELSE /\ retry_count' = 0
              /\ item_success' = FALSE
              /\ attempts' = 0
              /\ pc' = "retry_loop"
    /\ sel' = NoCall
    /\ UNCHANGED << db_vars, zuo_3d_embedding, store_vars, tmp_vars, limit, test_mode,
                    success_count, failed_count, glb_filepath, result, downloaded,
                    last_upload, updated_rows, exhausted, faults, start_pending >>

\* "while retry_count < MAX_RETRIES and not item_success"
RetryLoopCond_Mutant(rc, succ) == rc <= MAX_RETRIES /\ ~succ
RetryLoopCond_NoSuccess(rc, succ) == rc < MAX_RETRIES

RetryLoopCond(rc, succ) == rc < MAX_RETRIES /\ ~succ

\* head of the retry loop: call process_item (glb_filepath = None), or leave
\* the loop for the pause before the next item
RetryLoopHead ==
    /\ pc = "retry_loop"
    /\ IF RetryLoopCond(retry_count, item_success)
         THEN /\ pc' = "download"
              /\ attempts' = attempts + 1
              /\ glb_filepath' = "None"
              /\ UNCHANGED << item, retry_count, item_success >>
         ELSE \* the item is done with: its locals are dead until the next
              \* iteration assigns them
              /\ pc' = "pause"
              /\ item' = Null /\ retry_count' = 0 /\ item_success' = FALSE
              /\ attempts' = 0
              /\ UNCHANGED glb_filepath
    /\ UNCHANGED << db_vars, zuo_3d_embedding, store_vars, tmp_vars, limit, test_mode,
                    count_vars, result, sel, downloaded, last_upload, updated_rows, exhausted, faults,
                    start_pending >>

\* ---- process_item and the steps it calls

\* process_item, lines 323-340: the step that follows a step which returned,
\* or the except branch (return False, then the finally) when it raised
AfterStep_Mutant(step, raised) ==
    IF step = "record" THEN "finally"
    ELSE IF raised /\ step # "upload" THEN "finally"
    ELSE IF step = "download" THEN "predict"
    ELSE IF step = "predict" THEN "upload"
    ELSE "record"

AfterStep(step, raised) ==
    IF raised \/ step = "record" THEN "finally"
    ELSE IF step = "download" THEN "predict"
    ELSE IF step = "predict" THEN "upload"
    ELSE "record"

\* download_image: requests.get, then the body is written to a new temp file
download_image(raises) ==
    /\ pc = "download"
    /\ downloaded' = item[1].single_image_1_url
    /\ pc' = AfterStep("download", raises)
    /\ IF raises
         THEN /\ result' = FALSE
              /\ UNCHANGED tmp_img
         ELSE /\ tmp_img' = TRUE
              /\ UNCHANGED result
    /\ UNCHANGED << db_vars, zuo_3d_embedding, store_vars, tmp_glb, limit, test_mode,
                    item, retry_count, item_success, count_vars, glb_filepath, sel,
                    attempts, last_upload, updated_rows, exhausted, faults, start_pending >>

\* The bytes of an object are told apart by where they come from: "new" are
\* the bytes of the glb file of the process_item call at hand, "old" the
\* bytes uploaded by an earlier call.  When process_item returns, every
\* stored object becomes "old".
Age(objs) == [f \in DOMAIN objs |-> IF objs[f] = "new" THEN "old" ELSE objs[f]]

\* generate_3d_model after the download: trellis_client.predict, then
\* os.unlink(image_path); a raising predict skips the unlink
predict(raises) ==
    /\ pc = "predict"
    /\ pc' = AfterStep("predict", raises)
    /\ IF raises
         THEN /\ result' = FALSE
              /\ UNCHANGED << tmp_img, tmp_glb, glb_filepath >>
         ELSE /\ tmp_img' = FALSE
              /\ tmp_glb' = TRUE
              /\ glb_filepath' = "path"
              /\ UNCHANGED result
    /\ UNCHANGED << db_vars, zuo_3d_embedding, store_vars, limit, test_mode, item,
                    retry_count, item_success, count_vars, sel, attempts, downloaded,
                    last_upload, updated_rows, exhausted, faults, start_pending >>

\* storage.from_(bucket).remove([filename]) inside "try: ... except: pass"
RemoveObject(objs, filename, del_raises) ==
    IF ~del_raises /\ bucket_exists THEN [objs EXCEPT ![filename] = "none"] ELSE objs

\* storage.from_(bucket).upload(path, file, file_options) without the upsert
\* option: what the store answers
UploadAnswer(objs, bucket, filename, raises) ==
    IF raises THEN "error"
    ELSE IF ~bucket THEN "Bucket not found"
    ELSE IF objs[filename] # "none" THEN "Duplicate"
    ELSE "ok"

\* the options of create_bucket, line 279
BucketOptions == [public |-> TRUE]

\* 'if "Bucket not found" in str(upload_error)'
NeedsBucket_Mutant(answer) == answer # "ok"

NeedsBucket(answer) == answer = "Bucket not found"

\* the whole of upload_to_supabase: best-effort delete, upload, on "Bucket not
\* found" create_bucket and upload again, then get_public_url.  kbd_in_remove:
\* a KeyboardInterrupt arrives during remove() and the bare "except: pass"
\* swallows it (the delete may or may not have been carried out).
upload_to_supabase(del_raises, up_raises, create_raises, up2_raises, kbd_in_remove) ==
    /\ pc = "upload"
    /\ LET filename == Filename(Cur)
           glb_data == "new"   \* file.read() of the glb file of this call
           removed == RemoveObject(objects, filename, del_raises)
           first == UploadAnswer(removed, bucket_exists, filename, up_raises)
           create == NeedsBucket(first)
           created == create /\ ~create_raises
           second == IF created THEN UploadAnswer(removed, TRUE, filename, up2_raises)
                     ELSE "-"
           ok == first = "ok" \/ second = "ok"
       IN
       /\ bucket_exists' = (bucket_exists \/ created)
       /\ objects' = IF ok THEN [removed EXCEPT ![filename] = glb_data] ELSE removed
       /\ last_upload' = [called |-> TRUE,
                          had_object |-> objects[filename] # "none",
                          fault |-> up_raises \/ (create /\ (create_raises \/ up2_raises)),
                          returned |-> IF ok THEN get_public_url(filename) ELSE Null,
                          first |-> first,
                          create_called |-> create,
                                 create_args |-> IF create THEN << SUPABASE_BUCKET, BucketOptions >>
                                                 ELSE << >>,
                          uploads |-> IF created THEN 2 ELSE 1,
                          kbd_swallowed |-> kbd_in_remove]
       /\ pc' = AfterStep("upload", ~ok)
       /\ IF ok THEN UNCHANGED result ELSE result' = FALSE
    /\ UNCHANGED << db_vars, zuo_3d_embedding, tmp_vars, limit, test_mode, item, retry_count,
                    item_success, count_vars, glb_filepath, sel, attempts, downloaded,
                    updated_rows, exhausted, faults, start_pending >>

\* update_data of update_database
UpdateData_NoUrl(asset_url) ==
    [asset_url |-> Null, asset_url_full |-> Null, has_asset |-> TRUE]

UpdateData(asset_url) ==
    [asset_url |-> asset_url, asset_url_full |-> asset_url, has_asset |-> TRUE]

\* "if result.data: ... else: raise Exception('No rows updated')"
RowsUpdated_Mutant(answer) == answer # "raised"

RowsUpdated(answer) == answer = "one"

\* what the store answers to the update: the row is written ("one"), no row
\* matches and result.data is empty ("zero"), or execute() raises ("raised")
UpdateAnswers == {"one", "zero", "raised"}

\* update_database: one update of the tracking row
update_database(answer) ==
    /\ pc = "record"
    /\ LET asset_url == last_upload.returned IN
       zuo_3d_embedding' = IF answer = "one"
                             THEN [zuo_3d_embedding EXCEPT ![Cur] = UpdateData(asset_url)]
                             ELSE zuo_3d_embedding
    /\ updated_rows' = answer
    /\ result' = RowsUpdated(answer)
    /\ pc' = AfterStep("record", ~RowsUpdated(answer))
    \* asset_url is not read again
    /\ last_upload' = NoUpload
    /\ UNCHANGED << db_vars, store_vars, tmp_vars, limit, test_mode, item, retry_count,
                    item_success, count_vars, glb_filepath, sel, attempts, downloaded,
                    exhausted, faults, start_pending >>

\* the finally of process_item: unlink the glb file if there is one
process_item_finally ==
    /\ pc = "finally"
    /\ tmp_glb' = IF glb_filepath # "None" /\ tmp_glb THEN FALSE ELSE tmp_glb
    /\ pc' = "returned"
    \* process_item has returned: its locals are gone
    /\ glb_filepath' = "None"
    /\ downloaded' = Null
    /\ last_upload' = NoUpload
    /\ objects' = Age(objects)
    /\ UNCHANGED << db_vars, zuo_3d_embedding, bucket_exists, tmp_img, limit, test_mode,
                    item, retry_count, item_success, count_vars, result, sel, updated_rows,
                    attempts, exhausted, faults, start_pending >>

\* "if retry_count < self.config['MAX_RETRIES']" after a failed attempt
RetriesRemain_Mutant(rc) == rc <= MAX_RETRIES
RetriesRemain_Early(rc) == rc + 1 < MAX_RETRIES

RetriesRemain(rc) == rc < MAX_RETRIES

\* run, lines 387-404: what the retry loop does with process_item's result
RunHandleResult(mark_raises) ==
    /\ pc = "returned"
    /\ IF result
         THEN /\ success_count' = Inc(success_count)
              /\ item_success' = TRUE
              /\ UNCHANGED << retry_count, failed_count, zuo_3d_embedding, exhausted, faults >>
         ELSE /\ retry_count' = retry_count + 1
              /\ UNCHANGED << success_count, item_success >>
              /\ IF RetriesRemain(retry_count + 1)
                   THEN \* time.sleep(RETRY_DELAY)
                        UNCHANGED << failed_count, zuo_3d_embedding, exhausted, faults >>
                   ELSE /\ failed_count' = Inc(failed_count)
                        /\ exhausted' = exhausted \cup {Cur}
                        /\ IF mark_raises
                             THEN /\ faults' = faults \cup {"mark"}
                                  /\ UNCHANGED zuo_3d_embedding
                             ELSE /\ zuo_3d_embedding' = MarkProcessed(zuo_3d_embedding, Cur)
                                  /\ UNCHANGED faults
    /\ pc' = "retry_loop"
    \* the files of the attempt are followed up to here only
    /\ tmp_img' = FALSE /\ tmp_glb' = FALSE
    /\ result' = FALSE
    /\ updated_rows' = "-"
    /\ UNCHANGED << db_vars, store_vars, limit, test_mode, item, processed_count,
                    glb_filepath, sel, attempts, downloaded,
                    last_upload, start_pending >>

\* lines 421-424: time.sleep(3) unless test_mode, then back to "while True"
InterItemPause ==
    /\ pc = "pause"
    /\ pc' = "loop"
    /\ UNCHANGED << db_vars, zuo_3d_embedding, store_vars, tmp_vars, limit, test_mode, item,
                    retry_count, item_success, count_vars, glb_filepath, result, sel,
                    attempts, downloaded, last_upload, updated_rows, exhausted, faults,
                    start_pending >>

\* ---- KeyboardInterrupt

\* where run waits on a call or a sleep: the selector's store calls, the steps
\* of process_item, the force-mark write, time.sleep(RETRY_DELAY) before the
\* next attempt, time.sleep(3) between items (not in test_mode)
Interruptible ==
    \/ pc \in {"select", "download", "predict", "upload", "record", "returned"}
    \/ pc = "retry_loop" /\ retry_count > 0 /\ RetryLoopCond(retry_count, item_success)
    \/ pc = "pause" /\ ~test_mode

\* the inner try of run (lines 386-408) has "except KeyboardInterrupt: return";
\* the selector call (line 370) and the pause (line 424) lie outside it, under
\* the outer "except Exception" only
InsideRetryTry(p) == p \in {"download", "predict", "upload", "record", "returned", "retry_loop"}

\* A KeyboardInterrupt is raised in run or in a call below it.  No "except
\* Exception" catches it; the finally of process_item unlinks the glb file; run
\* either returns from its handler or lets the exception escape.  Nothing of
\* the run is read afterwards.
keyboard_interrupt ==
    /\ Interruptible
    /\ pc' = IF InsideRetryTry(pc) THEN "interrupted" ELSE "escaped"
    /\ tmp_img' = FALSE /\ tmp_glb' = FALSE
    /\ objects' = Age(objects)
    /\ limit' = Null /\ test_mode' = FALSE
    /\ item' = Null /\ retry_count' = 0 /\ item_success' = FALSE
    /\ success_count' = 0 /\ failed_count' = 0 /\ processed_count' = 0
    /\ glb_filepath' = "None" /\ result' = FALSE
    /\ sel' = NoCall /\ attempts' = 0 /\ downloaded' = Null
    /\ last_upload' = NoUpload /\ updated_rows' = "-"
    /\ faults' = {} /\ start_pending' = {}
    /\ UNCHANGED << db_vars, zuo_3d_embedding, bucket_exists, exhausted >>

Limits == {Null} \cup { << n >> : n \in 0..MaxLimit }

Next ==
    \/ \E l \in Limits, t \in BOOLEAN : StartRun(l, t)
    \/ RunLoopHead
    \/ \E err \in SelErrors : get_next_pending_item(err)
    \/ RunTakeItem
    \/ RetryLoopHead
    \/ \E raises \in BOOLEAN : download_image(raises)
    \/ \E raises \in BOOLEAN : predict(raises)
    \/ \E d, u, c, u2, k \in BOOLEAN : upload_to_supabase(d, u, c, u2, k)
    \/ \E answer \in UpdateAnswers : update_database(answer)
    \/ process_item_finally
    \/ \E mark_raises \in BOOLEAN : RunHandleResult(mark_raises)
    \/ InterItemPause
    \/ keyboard_interrupt

Spec == Init /\ [][Next]_vars

\* the process keeps running: a step that can be taken is taken
FairSpec == Spec /\ WF_vars(Next)

\* ---- properties

has_asset(i) == zuo_3d_embedding[i].has_asset
Min(a, b) == IF a <= b THEN a ELSE b

\* C1. Forward progress: an item the driver gave up on (all MAX_RETRIES
\* attempts failed) is never returned by a later get_next_pending_item call,
\* whatever became of the force-mark write.
C1_ForwardProgress ==
    (pc = "selected" /\ sel.kind = "item") => sel.rec \notin exhausted

\* C2. At-most-bound retries: process_item is called at most MAX_RETRIES times
\* for one selection, and the item is given up only after that many calls.
C2_AtMostBoundRetries ==
    /\ attempts <= MAX_RETRIES
    /\ (item # Null /\ retry_count >= MAX_RETRIES) => attempts = MAX_RETRIES

C2_Witness ==
    /\ pc = "retry_loop" /\ item # Null
    /\ attempts = MAX_RETRIES /\ retry_count = MAX_RETRIES
    /\ Cur \in exhausted

\* C3. Temp-file cleanup: when process_item has returned, neither the image
\* temp file nor the glb file of that attempt exists.
C3_TempFileCleanup ==
    pc = "returned" => (~tmp_img /\ ~tmp_glb)

\* the records C4 speaks of: no catalog row, Main_Category 'Outdoor',
\* Item_Status 'DISC', or no non-empty Single_Image_1_URL
C4_Excluded(r) ==
    \/ Len(zuo_catalog[r]) = 0
    \/ \E row \in { zuo_catalog[r][n] : n \in 1..Len(zuo_catalog[r]) } :
          row.Main_Category = "Outdoor" \/ row.Item_Status = "DISC"
    \/ \A row \in { zuo_images[r][n] : n \in 1..Len(zuo_images[r]) } :
          row.Single_Image_1_URL = Null

\* C4. Exclusion idempotence: a get_next_pending_item frame that fetched an
\* excluded record (and met no store error) has set its has_asset and has not
\* returned it; no call ever returns an excluded record.
C4_ExclusionIdempotence ==
    /\ \A r \in Items :
         (sel.rec = r /\ sel.kind \in {"skip", "item"} /\ C4_Excluded(r))
            => (sel.kind = "skip" /\ sel.ret = Null /\ has_asset(r))
    /\ item # Null => ~C4_Excluded(Cur)

C4_Witness ==
    /\ sel.kind = "item"
    /\ \E r \in Items : C4_Excluded(r) /\ has_asset(r) /\ r # sel.rec

\* C5. Once has_asset is true no step sets it back to false, and a record
\* returned by get_next_pending_item had has_asset = false when it was fetched.
C5_HasAssetNeverReselected ==
    [][ /\ \A i \in Items : has_asset(i) => zuo_3d_embedding'[i].has_asset
        /\ (sel'.kind = "item" /\ sel' # sel) => ~has_asset(sel'.rec) ]_vars

C5_Witness ==
    /\ sel.kind = "item"
    /\ \E i \in Items : has_asset(i) /\ Eligible(i)

\* C6. Exhaustion: when the last allowed attempt of an item fails and the
\* force-mark write goes through, the record has has_asset = true and no asset
\* url, failed_count grows by one and success_count does not, and the retry
\* loop is left; a run over a single eligible record that ends so reports
\* failed = 1, success = 0.
C6_ExhaustStep ==
    /\ pc = "returned" /\ ~result /\ retry_count + 1 >= MAX_RETRIES
    /\ pc' = "retry_loop"
    /\ "mark" \notin faults'

C6_Exhaustion ==
    /\ [][ C6_ExhaustStep =>
             /\ attempts = MAX_RETRIES
             /\ zuo_3d_embedding'[Cur].has_asset
             /\ zuo_3d_embedding'[Cur].asset_url = Null
             /\ zuo_3d_embedding'[Cur].asset_url_full = Null
             /\ failed_count < MaxCount => failed_count' = failed_count + 1
             /\ success_count' = success_count ]_vars
    /\ [][ (pc = "retry_loop" /\ retry_count >= MAX_RETRIES) => pc' = "pause" ]_vars
    /\ [] ( ( /\ pc = "done" /\ faults = {}
              /\ Cardinality(start_pending) = 1
              /\ \A i \in start_pending :
                    has_asset(i) /\ zuo_3d_embedding[i].asset_url = Null )
            => (failed_count = 1 /\ success_count = 0 /\ processed_count = 1) )

C6_Witness ==
    /\ pc = "done" /\ faults = {}
    /\ Cardinality(start_pending) = 1
    /\ \A i \in start_pending : has_asset(i) /\ zuo_3d_embedding[i].asset_url = Null
    /\ failed_count = 1

\* C7. End-to-end success: when the first attempt of an item succeeds, the
\* image downloaded was the record's Single_Image_1_URL, the object under
\* '<id>.glb' (and no other) holds the bytes just generated, the record carries
\* the public url of that key and has_asset = true, no further attempt
\* follows, and a run over that single eligible record ends with success = 1,
\* failed = 0.
C7_EndToEnd ==
    /\ [] ( (pc = "finally" /\ result /\ attempts = 1) =>
              /\ downloaded = zuo_images[Cur][1].Single_Image_1_URL
              /\ objects[Filename(Cur)] = "new"
              /\ \A i \in Items \ {Cur} : objects[Filename(i)] # "new"
              /\ zuo_3d_embedding[Cur].asset_url = << "public", "zuo-generated", << Cur, ".glb" >> >>
              /\ zuo_3d_embedding[Cur].asset_url_full = zuo_3d_embedding[Cur].asset_url
              /\ has_asset(Cur) )
    /\ [][ (pc = "retry_loop" /\ item_success) => (pc' = "pause" /\ attempts' = 0) ]_vars
    /\ [] ( ( /\ pc \in {"retry_loop", "done"} /\ faults = {}
              /\ Cardinality(start_pending) = 1
              /\ \E i \in start_pending : zuo_3d_embedding[i].asset_url # Null )
            => (success_count = 1 /\ failed_count = 0 /\ processed_count = 1) )

C7_Witness ==
    /\ pc = "retry_loop" /\ item_success /\ attempts = 1
    /\ start_pending = {Cur}
    /\ success_count = 1 /\ failed_count = 0
    /\ objects[Filename(Cur)] = "old"

\* C8. Publish idempotence: an upload_to_supabase call that finds the object of
\* an earlier call under the item's key, and meets no upload or bucket error,
\* returns a public url and leaves the key holding the bytes of this call,
\* also when the best-effort delete raised.
C8_PublishIdempotence ==
    (last_upload.called /\ last_upload.had_object /\ ~last_upload.fault)
       => (last_upload.returned # Null /\ objects[Filename(Cur)] = "new")

\* C9. Limit enforcement: a run with limit L >= 1 that meets no store error
\* ends having processed min(L, N) of the N records that were eligible and
\* pending at its start, and the other N - min(L, N) still have has_asset =
\* false and no asset url.
C9_LimitEnforcement ==
    (pc = "done" /\ limit # Null /\ limit[1] >= 1 /\ faults = {}) =>
       LET N == Cardinality(start_pending)
           m == Min(limit[1], N)
           untouched == { i \in start_pending :
                            ~has_asset(i) /\ zuo_3d_embedding[i].asset_url = Null }
       IN /\ processed_count = m
          /\ Cardinality(untouched) = N - m
          /\ Cardinality({ i \in start_pending : has_asset(i) }) = m

C9_Witness ==
    /\ pc = "done" /\ limit = << 1 >> /\ ~test_mode /\ faults = {}
    /\ Cardinality(start_pending) = 2
    /\ processed_count = 1

\* C10. Run termination: a run without a limit that is not interrupted from
\* the keyboard reaches the end-of-run statistics, for every pattern of step
\* and store-write failures.
C10_RunTerminates ==
    (pc = "loop" /\ limit = Null) ~> (pc \in {"done", "interrupted", "escaped"})

\* a step in which a KeyboardInterrupt is raised: in run or a call below it
\* (keyboard_interrupt), or inside the best-effort delete of upload_to_supabase
KbdRaised ==
    \/ pc \notin {"interrupted", "escaped"} /\ pc' \in {"interrupted", "escaped"}
    \/ pc = "upload" /\ last_upload'.kbd_swallowed

\* C11. Interruption: a KeyboardInterrupt raised at any point of run (during
\* selection, an attempt, the backoff sleep or the inter-item pause) makes run
\* return from its handler at once, with no write to the tracking table or to
\* the bucket in that step.
C11_Interruption ==
    [][ KbdRaised =>
          /\ pc' = "interrupted"
          /\ zuo_3d_embedding' = zuo_3d_embedding
          /\ \A f \in Filenames : (objects'[f] = "none") <=> (objects[f] = "none") ]_vars

\* C12. Selection errors: a get_next_pending_item frame in which a store query
\* or update raises returns None to run (nothing escapes), and run then leaves
\* the loop for the end-of-run statistics; neither step changes a counter.
C12_SelectionErrors ==
    /\ [][ (pc = "select" /\ sel'.kind = "error") =>
             /\ sel'.ret = Null
             /\ pc' = "selected"
             /\ count_vars' = count_vars ]_vars
    /\ [][ (pc = "selected" /\ sel.kind = "error") =>
             /\ pc' = "done"
             /\ count_vars' = count_vars ]_vars

C12_Witness ==
    /\ pc = "done" /\ "select" \in faults
    /\ processed_count = 1 /\ success_count = 1

\* C13. Step ordering inside an attempt: the upload is entered only from a
\* generation that produced the glb file, the record write only from an upload
\* that returned a url; a step that raised (download or predict produced no
\* file, upload returned no url, the update matched no row) is followed by no
\* later step of the attempt and the attempt returns False; objects are
\* written by the upload step only and an attempt returns True only after the
\* record was written.
C13_StepOrdering ==
    /\ [][ /\ pc' = "predict" => (pc = "download" /\ tmp_img')
           /\ pc' = "upload" => (pc = "predict" /\ glb_filepath' = "path" /\ tmp_glb')
           /\ pc' = "record" => (pc = "upload" /\ last_upload'.returned # Null)
           /\ (\E f \in Filenames : objects'[f] = "new" /\ objects[f] # "new")
                 => pc = "upload" ]_vars
    /\ [][ ( \/ pc = "download" /\ ~tmp_img'
             \/ pc = "predict" /\ glb_filepath' # "path"
             \/ pc = "upload" /\ last_upload'.returned = Null
             \/ pc = "record" /\ updated_rows' # "one" )
           => (pc' \notin {"predict", "upload", "record"} /\ ~result') ]_vars
    /\ [] ( (pc = "finally" /\ result) =>
              (updated_rows = "one" /\ glb_filepath = "path"
                 /\ objects[Filename(Cur)] = "new") )

C13_Witness ==
    /\ pc = "finally" /\ ~result
    /\ glb_filepath = "path"
    /\ last_upload.called /\ last_upload.returned = Null
    /\ updated_rows = "-"
    /\ zuo_3d_embedding[Cur].asset_url = Null

\* C14. Success stops retrying: the step of run that sees process_item return
\* True adds exactly one to success_count, leaves failed_count alone and
\* writes nothing to the tracking table (no force-mark); from then on the
\* retry loop makes no further attempt for the item and does not sleep: its
\* next step leaves the loop for the pause before the next item.
C14_SuccessStopsRetrying ==
    /\ [][ (pc = "returned" /\ result /\ pc' = "retry_loop") =>
             /\ item_success'
             /\ success_count < MaxCount => success_count' = success_count + 1
             /\ failed_count' = failed_count
             /\ retry_count' = retry_count
             /\ zuo_3d_embedding' = zuo_3d_embedding
             /\ exhausted' = exhausted ]_vars
    /\ [] ( item_success => (pc = "retry_loop" /\ ~Interruptible) )
    /\ [][ item_success =>
             /\ pc' = "pause"
             /\ attempts' = 0
             /\ count_vars' = count_vars
             /\ zuo_3d_embedding' = zuo_3d_embedding
             /\ objects' = objects ]_vars

C14_Witness ==
    /\ pc = "retry_loop" /\ item_success
    /\ attempts = 2 /\ retry_count = 1
    /\ success_count = 1 /\ failed_count = 0
    /\ Cur \notin exhausted

\* C15. Selector result: a get_next_pending_item call that met no store error
\* returns either a record or None; a returned record has has_asset = false, a
\* catalog row, a Main_Category other than 'Outdoor', an Item_Status other than
\* 'DISC' and a non-empty Single_Image_1_URL, and the frame that returns it
\* writes nothing to the tracking table; None is returned only when no record
\* with has_asset = false is left.
C15_SelectorResult ==
    /\ [] ( (pc = "selected" /\ sel.kind = "item") =>
              /\ sel.ret # Null
              /\ sel.ret[1].zuo_item_no = sel.rec
              /\ sel.ret[1].has_asset = FALSE /\ ~has_asset(sel.rec)
              /\ zuo_catalog[sel.rec] # <<>>
              /\ sel.ret[1].main_category # "Outdoor"
              /\ sel.ret[1].item_status # "DISC"
              /\ sel.ret[1].single_image_1_url # Null
              /\ ~C4_Excluded(sel.rec) )
    /\ [] ( (pc = "selected" /\ sel.kind # "error" /\ sel.ret = Null) =>
              PendingRecords = {} )
    /\ [][ (pc = "select" /\ sel'.kind = "item") =>
              zuo_3d_embedding' = zuo_3d_embedding ]_vars

C15_Witness ==
    /\ pc = "selected" /\ sel.kind = "item" /\ faults = {}
    /\ processed_count = 1
    /\ \A i \in Items \ {sel.rec} : has_asset(i) /\ Eligible(i)

\* C16. Bucket creation on upload: an upload_to_supabase call whose first
\* upload is refused with "Bucket not found" calls create_bucket for the
\* configured bucket with public = true and, when the
\* bucket was created, uploads exactly once more; when the first upload fails
\* for another reason no bucket is created, there is no second upload, the
\* call returns no url and the attempt fails.
C16_BucketCreation ==
    [][ (pc = "upload" /\ last_upload'.called) =>
          /\ last_upload'.first = "Bucket not found" =>
                /\ ~bucket_exists
                /\ last_upload'.create_called
                /\ last_upload'.create_args = << "zuo-generated", [public |-> TRUE] >>
                /\ bucket_exists' => last_upload'.uploads = 2
                /\ ~bucket_exists' =>
                      (last_upload'.uploads = 1 /\ last_upload'.returned = Null)
          /\ last_upload'.first \in {"error", "Duplicate"} =>
                /\ ~last_upload'.create_called
                /\ last_upload'.uploads = 1
                /\ bucket_exists' = bucket_exists
                /\ last_upload'.returned = Null
                /\ pc' = "finally" /\ ~result'
          /\ last_upload'.first = "ok" =>
                (~last_upload'.create_called /\ last_upload'.uploads = 1) ]_vars

C16_Witness ==
    /\ pc = "record"
    /\ last_upload.first = "Bucket not found" /\ last_upload.create_called
    /\ last_upload.uploads = 2
    /\ bucket_exists
    /\ objects[Filename(Cur)] = "new"

\* C17. Completion Recorder failure: when the update of update_database
\* matches no row, update_database raises, so process_item returns False; run
\* then counts the attempt against MAX_RETRIES (retry_count grows by one, and
\* the item is given up when the bound is reached) and does not increment
\* success_count.
C17_RecorderFailure ==
    /\ [][ (pc = "record" /\ updated_rows' = "zero") =>
             (pc' = "finally" /\ ~result') ]_vars
    /\ [] ( (pc \in {"finally", "returned"} /\ updated_rows = "zero") => ~result )
    /\ [][ (pc = "returned" /\ updated_rows = "zero" /\ pc' = "retry_loop") =>
             /\ success_count' = success_count
             /\ ~item_success'
             /\ retry_count' = retry_count + 1
             /\ retry_count' <= MAX_RETRIES
             /\ retry_count' = MAX_RETRIES =>
                   (Cur \in exhausted'
                      /\ (failed_count < MaxCount => failed_count' = failed_count + 1)) ]_vars

C17_Witness ==
    /\ pc = "returned" /\ updated_rows = "zero"
    /\ attempts = MAX_RETRIES /\ retry_count = MAX_RETRIES - 1
    /\ objects[Filename(Cur)] # "none"
    /\ zuo_3d_embedding[Cur].asset_url = Null
    /\ success_count = 0

\* C18. Limit as an upper bound: a run given a limit L, for every L >= 0 and
\* for L = 0 too, never has processed (selected and attempted) more than L
\* items.
C18_LimitUpperBound ==
    (limit # Null /\ pc \notin {"idle", "interrupted", "escaped"}) =>
       processed_count <= limit[1]

\* run is between items: before the selector call, in it, at its return, in
\* the pause, after the loop, or in the retry loop once it has nothing more to
\* do for the item
BetweenItems ==
    \/ pc \in {"loop", "select", "selected", "pause", "done"}
    \/ pc = "retry_loop" /\ ~RetryLoopCond(retry_count, item_success)

\* C19. Statistics accounting: whenever run is between items, and at the
\* end-of-run statistics, success_count + failed_count = processed_count;
\* while an item is in flight it is counted in processed_count and not yet in
\* the other two; no step counts an item both as a success and as a failure;
\* a selector frame that excludes a record changes none of the counters.
\* (Counters are compared below the value at which the model stops counting.)
C19_StatisticsAccounting ==
    /\ [] ( (BetweenItems /\ processed_count < MaxCount) =>
              success_count + failed_count = processed_count )
    /\ [] ( (~BetweenItems /\ item # Null /\ processed_count < MaxCount) =>
              success_count + failed_count = processed_count - 1 )
    /\ [][ pc' \notin {"loop", "interrupted", "escaped"} =>
             /\ success_count' >= success_count /\ failed_count' >= failed_count
             /\ (success_count' + failed_count') - (success_count + failed_count) <= 1 ]_vars
    /\ [][ (pc = "select" /\ sel'.kind = "skip") => count_vars' = count_vars ]_vars

C19_Witness ==
    /\ pc = "done" /\ faults = {}
    /\ processed_count = 2 /\ success_count = 1 /\ failed_count = 1
    /\ \A i \in Items : has_asset(i)

\* C20. Asset reference integrity: in every reachable state a record whose
\* asset_url is set has has_asset = true, its asset_url and asset_url_full are
\* the public url of '<id>.glb', and an object is stored under that key; the
\* asset url of a record changes only in the update_database step of an
\* attempt for that record whose upload returned the url and stored the
\* object in the same process_item call; the force-mark and the selector's
\* exclusion mark never change it.
C20_AssetReferenceIntegrity ==
    /\ [] ( \A i \in Items :
              zuo_3d_embedding[i].asset_url # Null =>
                 /\ has_asset(i)
                 /\ zuo_3d_embedding[i].asset_url = get_public_url(Filename(i))
                 /\ zuo_3d_embedding[i].asset_url_full = zuo_3d_embedding[i].asset_url
                 /\ objects[Filename(i)] # "none" )
    /\ [][ \A i \in Items :
              ( \/ zuo_3d_embedding'[i].asset_url # zuo_3d_embedding[i].asset_url
                \/ zuo_3d_embedding'[i].asset_url_full # zuo_3d_embedding[i].asset_url_full )
              => /\ pc = "record" /\ i = Cur
                 /\ updated_rows' = "one"
                 /\ last_upload.called /\ last_upload.returned # Null
                 /\ zuo_3d_embedding'[i].asset_url = last_upload.returned
                 /\ objects[Filename(i)] = "new"
                 /\ zuo_3d_embedding'[i].has_asset ]_vars

C20_Witness ==
    /\ pc = "done"
    /\ \E i, j \in Items :
          /\ zuo_3d_embedding[i].asset_url # Null /\ objects[Filename(i)] = "old"
          /\ j \in exhausted /\ has_asset(j) /\ Eligible(j)
          /\ zuo_3d_embedding[j].asset_url = Null
          /\ objects[Filename(j)] # "none"

====
